---- MODULE Spec2Model ----
(***************************************************************************)
(* Verification server of sourcify: the single-flight gate of              *)
(* VerificationService.verifyDeployed, the POST /verify and session        *)
(* verification handlers that call it, and the RepositoryV1Service         *)
(* (the MatchStore) they persist to.                                       *)
(*                                                                         *)
(* Node runs the handlers on one thread: code between two awaits is one    *)
(* atomic step, and every await is a point where other requests may run.   *)
(***************************************************************************)
EXTENDS Integers, Sequences, FiniteSets, TLC

VARIABLES
  active,   \* VerificationService.activeVerificationsByChainIdAddress: the keys present
  req,      \* per request: the handler's position and locals
  files,    \* the repository directory: file path -> [content, birthtime]
  manifest, \* manifest.json at the repository root: <<>> (no file) or <<timestamp>>
  now,      \* the wall clock, in ms
  call,     \* the last direct call on the MatchStore and what it returned
  provenance, \* full_match directory -> the sources verified for the Match stored there
  received, \* how many requests the server has received
  writing,  \* the storeMatch call in progress, write by write
  session,  \* req.session: inputFiles, contractWrappers, unusedSources
  upload,   \* the last request that added files to the session and its outcome
  run,      \* the session verification request in progress or last made
  legacy,   \* the last POST /verify request up to its call of verifyDeployed
  pending   \* a PendingContract of the monitor and the tasks of its assemble

\* The session of one client and the requests on it.
sessionVars == <<session, upload, run>>

\* The verification service and the handlers of the requests on (chainId, address).
handlerVars == <<active, req, provenance, received>>

\* The state that the calls on the MatchStore as a whole and the handlers leave alone.
aux == <<writing, sessionVars, legacy, pending>>

vars == <<active, req, files, manifest, now, call, provenance, received, aux>>

-----------------------------------------------------------------------------
(* Bounds *)

MaxRequests == 2 \* requests received in all
MaxClock == 1    \* the clock's readings are 0..MaxClock

\* The requests the server handles together: a slot is free before its first
\* request and again once its request has been answered.
Requests == {"r1", "r2"}

-----------------------------------------------------------------------------
(* Values *)

NULL == "null"
EFIB == "extra-file-input-bug"

\* Two spellings of one contract address: lower case and upper case hex digits.
Addresses == {"0xab", "0xAB"}

\* ethers.getAddress: the checksummed spelling, one per address whatever the
\* letter case of the input.
getAddress(address) ==
  IF address \in {"0xab", "0xAB"} THEN "0xAb" ELSE address

\* `${chainId}:${address}`
Key(chainId, address) == <<chainId, ":", address>>


-----------------------------------------------------------------------------
(* Match and CheckedContract values *)

\* lib-sourcify's Status values as the server sees them in a Match.
RuntimeStatuses == {"perfect", "partial", EFIB, NULL}
CreationStatuses == {"perfect", "partial", NULL}

\* common.getMatchStatus: perfect when either side is perfect, else partial when
\* either side is partial, else the runtime sentinel, else null.
getMatchStatus(match) ==
  IF match.runtimeMatch = "perfect" \/ match.creationMatch = "perfect" THEN "perfect"
  ELSE IF match.runtimeMatch = "partial" \/ match.creationMatch = "partial" THEN "partial"
  ELSE IF match.runtimeMatch = EFIB THEN EFIB
  ELSE NULL

\* JavaScript truthiness of a status: null is falsy, every status string truthy.
Truthy(status) == status # NULL

-----------------------------------------------------------------------------
(* RepositoryV1Service: paths *)

\* A path is the sequence of its segments.
\* contracts/{full,partial}_match/<chainId>/<checksummed address>
generateRelativeContractDir(matchQuality, chainId, address) ==
  <<"contracts", matchQuality, chainId, getAddress(address)>>

\* <contract dir>[/sources]/<fileName>
generateAbsoluteFilePath(matchQuality, chainId, address, source, fileName) ==
  generateRelativeContractDir(matchQuality, chainId, address)
    \o (IF source THEN <<"sources">> ELSE <<>>) \o fileName

IsUnder(path, dir) ==
  Len(path) >= Len(dir) /\ SubSeq(path, 1, Len(dir)) = dir

\* path.normalize on a relative path: "." segments go, "x/.." collapses, and a
\* ".." with nothing left to climb stays in front.
RECURSIVE Normalize(_, _)
Normalize(segs, acc) ==
  IF segs = <<>> THEN (IF acc = <<>> THEN <<".">> ELSE acc)
  ELSE LET h == Head(segs) t == Tail(segs) IN
       IF h = "." THEN Normalize(t, acc)
       ELSE IF h = ".." /\ acc # <<>> /\ acc[Len(acc)] # ".."
         THEN Normalize(t, SubSeq(acc, 1, Len(acc) - 1))
       ELSE Normalize(t, Append(acc, h))

\* sanitizePath: normalize, then drop every ".." segment of the directory part
\* (path.parse(...).dir); the last segment (base) is kept as it is.
sanitizePath(originalPath) ==
  LET n == Normalize(originalPath, <<>>)
      dir == SubSeq(n, 1, Len(n) - 1)
      base == n[Len(n)]
  IN SelectSeq(dir, LAMBDA seg : seg # "..") \o <<base>>

-----------------------------------------------------------------------------
(* RepositoryV1Service: writes.  A repository state is [files, manifest]. *)

updateRepositoryTag_reversed(fs, t) == [fs EXCEPT !.manifest = <<MaxClock - t>>]

\* updateRepositoryTag: manifest.json := {timestamp: new Date().getTime()}
updateRepositoryTag(fs, t) == [fs EXCEPT !.manifest = <<t>>]

\* The birthtime of a file written at t: a new file is born now, an overwritten
\* one keeps its birthtime.  It is kept for metadata.json, the one file whose
\* birthtime the service reads, and is 0 for the others.
Birthtime(fs, path, t) ==
  IF path[Len(path)] # "metadata.json" THEN 0
  ELSE IF path \in DOMAIN fs.files THEN fs.files[path].birthtime
  ELSE t

save_appends(fs, path, content, t) ==
  updateRepositoryTag(
    [fs EXCEPT !.files =
       IF path \in DOMAIN fs.files
         THEN [p \in DOMAIN fs.files \cup {Append(path, "1")} |->
                 IF p \in DOMAIN fs.files THEN fs.files[p]
                 ELSE [content |-> content, birthtime |-> 0]]
         ELSE [p \in DOMAIN fs.files \cup {path} |->
                 IF p # path THEN fs.files[p]
                 ELSE [content |-> content, birthtime |-> t]]],
    t)

\* save: mkdir -p, write the file, then update the repository tag.
save(fs, path, content, t) ==
  updateRepositoryTag(
    [fs EXCEPT !.files =
       [p \in DOMAIN fs.files \cup {path} |->
          IF p = path
            THEN [content |-> content, birthtime |-> Birthtime(fs, path, t)]
            ELSE fs.files[p]]],
    t)

\* A run of save calls, one per path of batch.
RECURSIVE saveAll(_, _, _)
saveAll(fs, batch, t) ==
  IF DOMAIN batch = {} THEN fs
  ELSE LET p == CHOOSE q \in DOMAIN batch : TRUE IN
       saveAll(save(fs, p, batch[p], t),
               [q \in DOMAIN batch \ {p} |-> batch[q]], t)

deletePartialIfExists_keeps(fs, chainId, address) == fs

\* deletePartialIfExists: rmdir -r of the partial_match directory of the contract.
deletePartialIfExists(fs, chainId, address) ==
  LET dir == generateRelativeContractDir("partial", chainId, address) IN
  [fs EXCEPT !.files =
     [p \in {q \in DOMAIN fs.files : ~IsUnder(q, dir)} |-> fs.files[p]]]

statusToMatchQuality_partial(status) == "partial"

\* statusToMatchQuality: "throw" stands for `Invalid match status`.
statusToMatchQuality(status) ==
  IF status = "perfect" THEN "full"
  ELSE IF status = "partial" THEN "partial"
  ELSE "throw"

\* The file a source goes to: sources/<sanitized path> of the contract directory.
SourceTarget(matchQuality, chainId, address, sourcePath) ==
  generateAbsoluteFilePath(matchQuality, chainId, address, TRUE, sanitizePath(sourcePath))

\* The sources by target file (of two sources with one target, one is kept).
SourceBatch(matchQuality, chainId, address, sources) ==
  [p \in {SourceTarget(matchQuality, chainId, address, sp) : sp \in DOMAIN sources} |->
     sources[CHOOSE sp \in DOMAIN sources :
               SourceTarget(matchQuality, chainId, address, sp) = p]]

\* original path -> sanitized path, for the paths the sanitization changed.
PathTranslation(sources) ==
  [sp \in {q \in DOMAIN sources : sanitizePath(q) # q} |-> sanitizePath(sp)]

savePathTranslation(fs, matchQuality, chainId, address, pathTranslation, t) ==
  IF DOMAIN pathTranslation = {} THEN fs
  ELSE save(fs,
            generateAbsoluteFilePath(matchQuality, chainId, address, FALSE,
                                     <<"path-translation.json">>),
            <<"json", pathTranslation>>, t)

\* storeSources: every source under sources/<sanitized path>, then
\* path-translation.json when some path was changed by the sanitization.
storeSources(fs, matchQuality, chainId, address, sources, t) ==
  savePathTranslation(
    saveAll(fs, SourceBatch(matchQuality, chainId, address, sources), t),
    matchQuality, chainId, address, PathTranslation(sources), t)

\* storeJSON / storeTxt: one file at the root of the contract directory.
storeJSON(fs, matchQuality, chainId, address, fileName, contentJSON, t) ==
  save(fs, generateAbsoluteFilePath(matchQuality, chainId, address, FALSE, <<fileName>>),
       <<"json", contentJSON>>, t)

storeTxt(fs, matchQuality, chainId, address, fileName, content, t) ==
  save(fs, generateAbsoluteFilePath(matchQuality, chainId, address, FALSE, <<fileName>>),
       <<"txt", content>>, t)

\* The match is one storeMatch persists: it has an address and a perfect or
\* partial side.
Storable(match) ==
  /\ match.address # ""
  /\ \/ match.runtimeMatch \in {"perfect", "partial"}
     \/ match.creationMatch \in {"perfect", "partial"}

\* The optional artifacts of storeMatch, each written when its Match field is
\* set: constructor-args.txt, creator-tx-hash.txt, library-map.json,
\* immutable-references.json.
storeIfSet(fs, match, matchQuality, fileName, content, t) ==
  IF fileName \notin match.optional THEN fs
  ELSE IF fileName \in {"constructor-args.txt", "creator-tx-hash.txt"}
    THEN storeTxt(fs, matchQuality, match.chainId, match.address, fileName, content, t)
  ELSE storeJSON(fs, matchQuality, match.chainId, match.address, fileName, content, t)

storeOptional(fs, match, matchQuality, t) ==
  storeIfSet(
    storeIfSet(
      storeIfSet(
        storeIfSet(fs, match, matchQuality, "constructor-args.txt",
                   "abiEncodedConstructorArguments", t),
        match, matchQuality, "creator-tx-hash.txt", "creatorTxHash", t),
      match, matchQuality, "library-map.json", "libraryMap", t),
    match, matchQuality, "immutable-references.json", "immutableReferences", t)

\* The writes of storeMatch into the partition matchQuality, in the order of
\* the code: the sources, metadata.json, the optional artifacts.
storeArtifacts(fs, contract, match, matchQuality, t) ==
  IF matchQuality = "throw" THEN [fs |-> fs, outcome |-> "threw"]
  ELSE [fs |-> storeOptional(
                 storeJSON(
                   storeSources(fs, matchQuality, match.chainId, match.address,
                                contract.solidity, t),
                   matchQuality, match.chainId, match.address, "metadata.json",
                   contract.metadata, t),
                 match, matchQuality, t),
        outcome |-> "stored"]

storeMatch_tags_anyway(fs, contract, match, t) ==
  IF Storable(match) THEN
    storeArtifacts(
      IF match.runtimeMatch = "perfect" \/ match.creationMatch = "perfect"
        THEN deletePartialIfExists(fs, match.chainId, match.address)
        ELSE fs,
      contract, match, statusToMatchQuality(getMatchStatus(match)), t)
  ELSE IF match.runtimeMatch = EFIB
    THEN [fs |-> updateRepositoryTag(fs, t), outcome |-> "returned"]
  ELSE [fs |-> updateRepositoryTag(fs, t), outcome |-> "threw"]

\* storeMatch(contract, match) at clock reading t: the repository after the
\* call and how the call ended ("stored", "returned" the match, or "threw").
\* A perfect Match first deletes the partial_match directory.
storeMatch(fs, contract, match, t) ==
  IF Storable(match) THEN
    storeArtifacts(
      IF match.runtimeMatch = "perfect" \/ match.creationMatch = "perfect"
        THEN deletePartialIfExists(fs, match.chainId, match.address)
        ELSE fs,
      contract, match, statusToMatchQuality(getMatchStatus(match)), t)
  ELSE IF match.runtimeMatch = EFIB THEN [fs |-> fs, outcome |-> "returned"]
  ELSE [fs |-> fs, outcome |-> "threw"]

-----------------------------------------------------------------------------
(* RepositoryV1Service: lookups *)

Exists(fs, path) == path \in DOMAIN fs.files

checkByChainAndAddress_finds_nothing(fs, address, chainId) == <<>>

\* checkByChainAndAddress: a perfect Match when full_match/.../metadata.json
\* exists, else the empty list.

checkByChainAndAddress(fs, address, chainId) ==
  LET contractPath ==
        generateAbsoluteFilePath("full", chainId, address, FALSE, <<"metadata.json">>)
  IN IF Exists(fs, contractPath)
       THEN << [address |-> address, chainId |-> chainId, runtimeMatch |-> "perfect",
                creationMatch |-> NULL,
                storageTimestamp |-> fs.files[contractPath].birthtime] >>
       ELSE <<>>

\* fetchFromStorage: the full path first, the partial one second; "throw" stands
\* for `Path not found`.
fetchFromStorage(fs, fullContractPath, partialContractPath) ==
  IF Exists(fs, fullContractPath)
    THEN [time |-> fs.files[fullContractPath].birthtime, status |-> "perfect"]
  ELSE IF Exists(fs, partialContractPath)
    THEN [time |-> fs.files[partialContractPath].birthtime, status |-> "partial"]
  ELSE [time |-> 0, status |-> "throw"]

\* checkAllByChainAndAddress: the Match of fetchFromStorage, or the empty list.
checkAllByChainAndAddress(fs, address, chainId) ==
  LET storage ==
        fetchFromStorage(fs,
          generateAbsoluteFilePath("full", chainId, address, FALSE, <<"metadata.json">>),
          generateAbsoluteFilePath("partial", chainId, address, FALSE, <<"metadata.json">>))
  IN IF storage.status = "throw" THEN <<>>
     ELSE << [address |-> address, chainId |-> chainId, runtimeMatch |-> storage.status,
              creationMatch |-> NULL, storageTimestamp |-> storage.time] >>

-----------------------------------------------------------------------------
(* Direct use of the MatchStore: storeMatch and the lookups called one after
   the other with any contract and any Match, while the clock advances. *)

\* Two CheckedContracts: metadata and sources (path -> content).
Contracts ==
  { [metadata |-> "metadata1", solidity |-> (<<"A.sol">> :> "A1")],
    [metadata |-> "metadata2",
     solidity |-> (<<"A.sol">> :> "A2") @@ (<<"lib", "B.sol">> :> "B2")] }

\* The Matches handed to storeMatch, all on one chain: every combination of the
\* two statuses for one spelling of the address; for the other spelling a
\* perfect and a partial Match that carry optional artifacts; and a Match
\* without an address.
StoreChainId == "1"

Match(address, chainId, runtimeMatch, creationMatch, optional) ==
  [address |-> address, chainId |-> chainId, runtimeMatch |-> runtimeMatch,
   creationMatch |-> creationMatch, optional |-> optional]

StoreMatches ==
  {Match("0xab", StoreChainId, rm, cm, {}) :
     rm \in RuntimeStatuses, cm \in CreationStatuses}
  \cup {Match("0xAB", StoreChainId, rm, NULL, {"creator-tx-hash.txt", "library-map.json"}) :
          rm \in {"perfect", "partial"}}
  \cup {Match("", StoreChainId, "perfect", NULL, {})}

NoMatch ==
  [address |-> "", chainId |-> "", runtimeMatch |-> NULL, creationMatch |-> NULL,
   optional |-> {}]

NoContract == [metadata |-> "", solidity |-> <<>>]

NoCall ==
  [op |-> "none", contract |-> NoContract, match |-> NoMatch, outcome |-> "",
   result |-> <<>>, hadFull |-> FALSE, hadPartial |-> FALSE, again |-> FALSE]

FS == [files |-> files, manifest |-> manifest]

\* Whether the repository holds the contract directory of (chainId, address).
DirExists(fs, matchQuality, chainId, address) ==
  \E p \in DOMAIN fs.files :
    IsUnder(p, generateRelativeContractDir(matchQuality, chainId, address))

\* await storage.storeMatch(contract, match)
StoreMatchCall(contract, match) ==
  \E r \in {storeMatch(FS, contract, match, now)} :
  /\ files' = r.fs.files
  /\ manifest' = r.fs.manifest
  /\ call' = [NoCall EXCEPT !.op = "storeMatch", !.contract = contract,
                !.match = match, !.outcome = r.outcome,
                !.hadFull = DirExists(FS, "full", match.chainId, match.address),
                !.hadPartial = DirExists(FS, "partial", match.chainId, match.address),
                !.again = /\ call.op = "storeMatch" /\ call.outcome = "stored"
                          /\ call.contract = contract /\ call.match = match]
  /\ UNCHANGED <<active, req, now, provenance, received, aux>>

\* await storage.checkAllByChainAndAddress(address, chainId)
CheckAllCall(address, chainId) ==
  /\ call' = [NoCall EXCEPT !.op = "checkAllByChainAndAddress",
                !.match = [NoMatch EXCEPT !.address = address, !.chainId = chainId],
                !.result = checkAllByChainAndAddress(FS, address, chainId)]
  /\ UNCHANGED <<active, req, files, manifest, now, provenance, received, aux>>

\* await storage.checkByChainAndAddress(address, chainId)
CheckCall(address, chainId) ==
  /\ call' = [NoCall EXCEPT !.op = "checkByChainAndAddress",
                !.match = [NoMatch EXCEPT !.address = address, !.chainId = chainId],
                !.result = checkByChainAndAddress(FS, address, chainId)]
  /\ UNCHANGED <<active, req, files, manifest, now, provenance, received, aux>>

\* Time passes.
Tick ==
  /\ now < MaxClock
  /\ now' = now + 1
  /\ UNCHANGED <<active, req, files, manifest, call, provenance, received, aux>>

\* storageTimestamp of a Match that was not read from the repository (undefined).
NoTimestamp == 0 - 1

\* No storeMatch call is in progress.
NotWriting ==
  [phase |-> "idle", contract |-> NoContract, match |-> NoMatch, queue |-> <<>>,
   manifest0 |-> <<>>]

\* A session without files and without contracts.
NewSession == [inputFiles |-> <<>>, contractWrappers |-> <<>>, unusedSources |-> {}]

\* No upload yet.  An upload is recorded with the size of the session's files
\* before it, the size of the incoming files, how saveFiles ended, the number
\* it returned, and for each content of the request the path it first came
\* under.
NoUpload ==
  [outcome |-> "none", newFilesCount |-> 0, sizeBefore |-> 0, sizeIncoming |-> 0,
   first |-> <<>>]

NoRun == [phase |-> "idle", queue |-> <<>>, handed |-> <<>>, found |-> {}]

\* JavaScript's undefined.
Undefined == <<"undefined">>

\* No POST /verify request yet.  The contract handed to verifyDeployed is kept
\* as a sequence: <<contract>>, or <<>> when the value handed is undefined.
NoLegacy ==
  [outcome |-> "none", chosenContract |-> Undefined, checkedContracts |-> <<>>,
   contract |-> <<>>]

\* A PendingContract as its constructor leaves it: metadata undefined (kept
\* as <<>>, and as <<metadata.sources>> once loaded), no sources.
NewPendingContract ==
  [phase |-> "new", metadata |-> <<>>, pendingSources |-> <<>>,
   fetchedSources |-> <<>>, tasks |-> <<>>]

IdleRequest ==
  [kind |-> "none", pc |-> "idle", chainId |-> "", address |-> "",
   creatorTxHash |-> FALSE, attempt |-> 0, match |-> NoMatch, tempMatch |-> NoMatch,
   response |-> [code |-> 0, status |-> "", message |-> "",
                 storageTimestamp |-> NoTimestamp],
   stored |-> <<>>]

Init ==
  /\ active = {}
  /\ req = [r \in Requests |-> IdleRequest]
  /\ files = <<>>
  /\ manifest = <<>>
  /\ now = 0
  /\ call = NoCall
  /\ provenance = <<>>
  /\ received = 0
  /\ writing = NotWriting
  /\ session = NewSession
  /\ upload = NoUpload
  /\ run = NoRun
  /\ legacy = NoLegacy
  /\ pending = NewPendingContract

NextStore ==
  \/ \E contract \in Contracts, match \in StoreMatches : StoreMatchCall(contract, match)
  \/ \E address \in Addresses : CheckAllCall(address, StoreChainId)
  \/ \E address \in Addresses : CheckCall(address, StoreChainId)
  \/ Tick

SpecStore == Init /\ [][NextStore]_vars

-----------------------------------------------------------------------------
(* storeMatch write by write.  The call is synchronous, so no other call runs
   between its writes; but a write can fail (fs.writeFileSync throws) or the
   process can stop, and then the writes made so far stay. *)

\* The Matches stored write by write: perfect and partial, with and without
\* optional artifacts.
WriteMatches ==
  {Match("0xab", StoreChainId, rm, NULL, opt) :
     rm \in {"perfect", "partial"}, opt \in {{}, {"creator-tx-hash.txt"}}}

Write(path, content) == [path |-> path, content |-> content]

\* The save calls of storeSources in the order they are made.
RECURSIVE SourceWrites(_)
SourceWrites(batch) ==
  IF DOMAIN batch = {} THEN <<>>
  ELSE LET p == CHOOSE q \in DOMAIN batch : TRUE IN
       <<Write(p, batch[p])>> \o SourceWrites([q \in DOMAIN batch \ {p} |-> batch[q]])

PathTranslationWrites(matchQuality, chainId, address, pathTranslation) ==
  IF DOMAIN pathTranslation = {} THEN <<>>
  ELSE <<Write(generateAbsoluteFilePath(matchQuality, chainId, address, FALSE,
                                        <<"path-translation.json">>),
               <<"json", pathTranslation>>)>>

\* The write of one optional artifact, when its Match field is set.
OptionalWrite(match, matchQuality, fileName, content) ==
  IF fileName \notin match.optional THEN <<>>
  ELSE <<Write(generateAbsoluteFilePath(matchQuality, match.chainId, match.address,
                                        FALSE, <<fileName>>),
               <<IF fileName \in {"constructor-args.txt", "creator-tx-hash.txt"}
                   THEN "txt" ELSE "json", content>>)>>

\* The save calls of storeMatch(contract, match) in the order of the code: the
\* sources, path-translation.json, metadata.json, the optional artifacts.
storeWrites(contract, match, matchQuality) ==
  SourceWrites(SourceBatch(matchQuality, match.chainId, match.address, contract.solidity))
  \o PathTranslationWrites(matchQuality, match.chainId, match.address,
                           PathTranslation(contract.solidity))
  \o <<Write(generateAbsoluteFilePath(matchQuality, match.chainId, match.address,
                                      FALSE, <<"metadata.json">>),
             <<"json", contract.metadata>>)>>
  \o OptionalWrite(match, matchQuality, "constructor-args.txt",
                   "abiEncodedConstructorArguments")
  \o OptionalWrite(match, matchQuality, "creator-tx-hash.txt", "creatorTxHash")
  \o OptionalWrite(match, matchQuality, "library-map.json", "libraryMap")
  \o OptionalWrite(match, matchQuality, "immutable-references.json",
                   "immutableReferences")

\* storeMatch(contract, match) is called with a Match it persists: the
\* partial_match directory is deleted for a perfect Match, the writes are ahead.
BeginStoreMatch(contract, match) ==
  /\ writing.phase # "running"
  /\ Storable(match)
  /\ \E fs \in {IF match.runtimeMatch = "perfect" \/ match.creationMatch = "perfect"
                  THEN deletePartialIfExists(FS, match.chainId, match.address)
                  ELSE FS} :
       /\ files' = fs.files
       /\ manifest' = fs.manifest
  /\ writing' = [phase |-> "running", contract |-> contract, match |-> match,
                 queue |-> storeWrites(contract, match,
                                       statusToMatchQuality(getMatchStatus(match))),
                 manifest0 |-> manifest]
  /\ UNCHANGED <<active, req, now, call, provenance, received, sessionVars, legacy, pending>>

\* The next save call of the storeMatch in progress: the file, then the manifest.
SaveStep ==
  /\ writing.phase = "running"
  /\ \E fs \in {save(FS, Head(writing.queue).path, Head(writing.queue).content, now)} :
       /\ files' = fs.files
       /\ manifest' = fs.manifest
  /\ writing' = [writing EXCEPT !.queue = Tail(@),
                   !.phase = IF Tail(writing.queue) = <<>> THEN "finished" ELSE @]
  /\ UNCHANGED <<active, req, now, call, provenance, received, sessionVars, legacy, pending>>

\* The storeMatch in progress stops before its next write: the write throws
\* or the process stops.
Interrupt ==
  /\ writing.phase = "running"
  /\ writing' = [writing EXCEPT !.phase = "interrupted"]
  /\ UNCHANGED <<active, req, files, manifest, now, call, provenance, received, sessionVars, legacy, pending>>

\* Time passes between two storeMatch calls.
TickBetween ==
  /\ writing.phase # "running"
  /\ now < MaxClock
  /\ now' = now + 1
  /\ UNCHANGED <<active, req, files, manifest, call, provenance, received, aux>>

NextSave ==
  \/ \E contract \in Contracts, match \in WriteMatches : BeginStoreMatch(contract, match)
  \/ SaveStep
  \/ Interrupt
  \/ TickBetween

SpecSave == Init /\ [][NextSave]_vars

-----------------------------------------------------------------------------
(* The handlers: POST /verify (legacyVerifyEndpoint) and the verification of
   one session entry (the loop body of verifyContractsInSession), each calling
   VerificationService.verifyDeployed and then the MatchStore. *)

Kinds == {"verify", "session"}

\* The (chainId, address) targets of the requests: one contract, spelled two ways.
TargetChainId == "1"

\* What the client uploaded: the metadata, the source it names and one more file.
InputSources == (<<"A.sol">> :> "A1") @@ (<<"Extra.sol">> :> "E1")

\* checkFiles: the CheckedContract holds the sources the metadata names.
CheckedContract == [metadata |-> "metadata1", solidity |-> (<<"A.sol">> :> "A1")]

\* lib-sourcify useAllSources: a new CheckedContract with every uploaded source
\* file, the hash-matched sources of the contract taking precedence.
useAllSources(contract, inputSources) ==
  [contract EXCEPT !.solidity = contract.solidity @@ inputSources]

\* The contract handed to verifyDeployed in the first call and in the retry.
Verifying(attempt) ==
  IF attempt = 1 THEN CheckedContract ELSE useAllSources(CheckedContract, InputSources)

\* lib-sourcify verifyDeployed resolves with a Match of the address: any two
\* statuses, the extra-file-input-bug sentinel only when nothing matched, and
\* the creator transaction among the artifacts when the creation code matched.
MatcherResults(chainId, address) ==
  {Match(address, chainId, rm, cm,
         IF cm = NULL THEN {} ELSE {"creator-tx-hash.txt"}) :
     rm \in RuntimeStatuses \ {EFIB}, cm \in CreationStatuses}
  \cup {Match(address, chainId, EFIB, NULL, {})}

\* getCreatorTx resolves with a hash or null, or rejects.
CreatorTxOutcomes == {"found", "none", "throws"}

AlreadyBeingVerified == "ContractIsAlreadyBeingVerifiedError"
ExtraFileInputBug == "ValidationError: metadata hashes match but not the bytecodes"

Response(code, status, message) ==
  [code |-> code, status |-> status, message |-> message,
   storageTimestamp |-> NoTimestamp]

\* getResponseMatchFromMatch: the status sent for a Match.
getResponseMatchFromMatch(match) == getMatchStatus(match)

\* The response for a Match found in the repository: its status and its
\* storageTimestamp (POST /verify sends getResponseMatchFromMatch(result[0]),
\* the session entry takes found[0].runtimeMatch || "error").
FoundResponse(kind, found) ==
  [Response(200,
            IF kind = "verify" THEN getResponseMatchFromMatch(found)
            ELSE IF Truthy(found.runtimeMatch) THEN found.runtimeMatch ELSE "error",
            "")
   EXCEPT !.storageTimestamp = found.storageTimestamp]

\* The key of the request's target.
KeyOf(r) == Key(req[r].chainId, req[r].address)

\* The request is inside verifyDeployed, between the insertion of its key and
\* the end of the call.
Holding(r) == req[r].pc \in {"creatorTx", "matching"}

\* The handler calls storeMatch(contract, match): the repository after it, and
\* the request's record of the call.
CallStoreMatch(r, contract, match) ==
  LET res == storeMatch(FS, contract, match, now) IN
  [fs |-> res.fs, outcome |-> res.outcome,
   stored |-> Append(req[r].stored, [contract |-> contract, match |-> match])]

\* The sources the matcher compiled for the Match now stored under each
\* full_match directory.
Provenance(match, verified) ==
  LET dir == generateRelativeContractDir("full", match.chainId, match.address) IN
  IF Storable(match) /\ getMatchStatus(match) = "perfect"
    THEN [d \in DOMAIN provenance \cup {dir} |->
            IF d = dir THEN verified.solidity ELSE provenance[d]]
    ELSE provenance

\* The request ends: its response (for a session entry, the entry's status and
\* statusMessage and the status code of the endpoint).  The handler's locals
\* are gone; what it answered and what it handed to storeMatch is kept.
Finish(r, response, stored) ==
  req' = [req EXCEPT ![r] =
            [IdleRequest EXCEPT !.kind = req[r].kind, !.pc = "done",
               !.chainId = req[r].chainId, !.address = req[r].address,
               !.response = response, !.stored = stored]]

Caught_answersOk(r, message) ==
  Finish(r, Response(200, NULL, ""), req[r].stored)

\* An error thrown by verifyDeployed (or by the handler after it) is caught:
\* POST /verify answers 500 with the error's message; the session loop turns it
\* into a Match without statuses, so the entry's status is "error", its
\* statusMessage the message, and nothing is stored.
Caught(r, message) ==
  IF req[r].kind = "verify"
    THEN Finish(r, Response(500, "", message), req[r].stored)
    ELSE Finish(r, Response(200, "error", message), req[r].stored)

\* The handler starts and looks the target up (checkByChainAndAddress): a stored
\* full match ends the request with the stored status; else the files are checked.
Start(r, kind, address, creatorTxHash) ==
  /\ req[r].pc \in {"idle", "done"}
  /\ r = "r2" => req["r1"].pc \notin {"idle", "done"}
  /\ received < MaxRequests
  /\ received' = received + 1
  /\ \E found \in {checkByChainAndAddress(FS, address, TargetChainId)} :
       req' = [req EXCEPT ![r] =
         IF found # <<>>
           THEN [IdleRequest EXCEPT !.kind = kind, !.pc = "done",
                   !.chainId = TargetChainId, !.address = address,
                   !.response = FoundResponse(kind, found[1])]
           ELSE [IdleRequest EXCEPT !.kind = kind, !.pc = "check",
                   !.chainId = TargetChainId, !.address = address,
                   !.creatorTxHash = creatorTxHash]]
  /\ UNCHANGED <<active, files, manifest, now, call, provenance, aux>>

\* Whether this call of verifyDeployed is given a creatorTxHash: the request's
\* own in POST /verify and in the first call of the session loop; the retry of
\* the session loop passes none.
PassesCreatorTxHash(r) ==
  req[r].creatorTxHash /\ (req[r].kind = "verify" \/ req[r].pc = "check")

\* The handler calls verificationService.verifyDeployed, for the first time
\* (after checkFiles / checkAndFetchMissing) or again (after useAllSources).
\* The call runs to its first await: throwIfContractIsAlreadyBeingVerified,
\* the insertion of the key, then getCreatorTx or the matcher is awaited.
throwIfContractIsAlreadyBeingVerified_never(chainId, address) == FALSE

throwIfContractIsAlreadyBeingVerified(chainId, address) ==
  Key(chainId, address) \in active

CallVerifyDeployed(r) ==
  /\ req[r].pc \in {"check", "useAllSources"}
  /\ IF throwIfContractIsAlreadyBeingVerified(req[r].chainId, req[r].address)
       THEN /\ Caught(r, AlreadyBeingVerified)
            /\ UNCHANGED active
       ELSE /\ active' = active \cup {KeyOf(r)}
            /\ req' = [req EXCEPT
                 ![r].attempt = IF req[r].pc = "check" THEN 1 ELSE 2,
                 ![r].pc = IF PassesCreatorTxHash(r) THEN "matching" ELSE "creatorTx"]
  /\ UNCHANGED <<files, manifest, now, call, provenance, received, aux>>

\* await getCreatorTx(sourcifyChain, address) ends.  It is awaited before the
\* try block: when it rejects, the error leaves verifyDeployed as it is.
CreatorTxReturns(r, outcome) ==
  /\ req[r].pc = "creatorTx"
  /\ IF outcome = "throws"
       THEN Caught(r, "getCreatorTx failed")
       ELSE req' = [req EXCEPT ![r].pc = "matching"]
  /\ UNCHANGED <<active, files, manifest, now, call, provenance, received, aux>>

\* await verifyDeployed(checkedContract, ...) of lib-sourcify resolves: the key
\* is deleted and the Match returned to the handler.
MatcherReturns(r, match) ==
  /\ req[r].pc = "matching"
  /\ active' = active \ {KeyOf(r)}
  /\ req' = [req EXCEPT ![r].pc = "verified",
               ![r].match = IF req[r].attempt = 1 THEN match ELSE @,
               ![r].tempMatch = IF req[r].attempt = 2 THEN match ELSE @]
  /\ UNCHANGED <<files, manifest, now, call, provenance, received, aux>>

\* ... or rejects: the key is deleted and the error thrown again.
MatcherThrows(r) ==
  /\ req[r].pc = "matching"
  /\ active' = active \ {KeyOf(r)}
  /\ Caught(r, "verifyDeployed failed")
  /\ UNCHANGED <<files, manifest, now, call, provenance, received, aux>>

\* storeMatch(contract, match) called by the handler of r, the Match having been
\* produced for the contract `verified`; then the response.
StoreAndFinish(r, contract, match, verified, response) ==
  \E c \in {CallStoreMatch(r, contract, match)} :
  /\ files' = c.fs.files
  /\ manifest' = c.fs.manifest
  /\ provenance' = IF c.outcome = "stored"
                     THEN Provenance(match, verified) ELSE provenance
  /\ IF c.outcome = "threw"
       THEN Finish(r, Response(500, response.status, "Unknown match status"), c.stored)
       ELSE Finish(r, response, c.stored)

NoStoreAndFinish(r, response) ==
  /\ Finish(r, response, req[r].stored)
  /\ UNCHANGED <<files, manifest, provenance>>

\* POST /verify after a verifyDeployed call has returned.
LegacyContinue(r) ==
  LET match == req[r].match
      tempMatch == req[r].tempMatch
  IN
  /\ req[r].kind = "verify" /\ req[r].pc = "verified"
  /\ IF req[r].attempt = 1 /\ match.runtimeMatch = EFIB
       THEN \* await useAllSources(contract, inputFiles)
            /\ req' = [req EXCEPT ![r].pc = "useAllSources"]
            /\ UNCHANGED <<files, manifest, provenance>>
     ELSE IF req[r].attempt = 2
             /\ (tempMatch.runtimeMatch = "perfect" \/ tempMatch.creationMatch = "perfect")
       THEN StoreAndFinish(r, CheckedContract, tempMatch, Verifying(2),
                           Response(200, getResponseMatchFromMatch(tempMatch), ""))
     ELSE IF req[r].attempt = 2 /\ tempMatch.runtimeMatch = EFIB
       THEN /\ Caught(r, ExtraFileInputBug)
            /\ UNCHANGED <<files, manifest, provenance>>
     ELSE IF Truthy(match.runtimeMatch) \/ Truthy(match.creationMatch)
       THEN StoreAndFinish(r, CheckedContract, match, Verifying(1),
                           Response(200, getResponseMatchFromMatch(match), ""))
     ELSE NoStoreAndFinish(r, Response(200, getResponseMatchFromMatch(match), ""))
  /\ UNCHANGED <<active, now, call, received, aux>>

\* The status of a session entry: getMatchStatus(match) || "error".
EntryStatus(match) ==
  IF Truthy(getMatchStatus(match)) THEN getMatchStatus(match) ELSE "error"

\* The session loop after a verifyDeployed call has returned.
SessionContinue(r) ==
  LET first == req[r].match
      tempMatch == req[r].tempMatch
      retried == req[r].attempt = 2
      adopt == /\ retried
               /\ \/ tempMatch.runtimeMatch \in {"perfect", "partial"}
                  \/ tempMatch.creationMatch \in {"perfect", "partial"}
      match == IF adopt THEN tempMatch ELSE first
      verified == IF adopt THEN Verifying(2) ELSE Verifying(1)
  IN
  /\ req[r].kind = "session" /\ req[r].pc = "verified"
  /\ IF ~retried /\ first.runtimeMatch = EFIB
       THEN \* await useAllSources(checkedContractWithAllSources, pathBufferInputFiles)
            /\ req' = [req EXCEPT ![r].pc = "useAllSources"]
            /\ UNCHANGED <<files, manifest, provenance>>
     ELSE IF retried /\ ~adopt /\ tempMatch.runtimeMatch = EFIB
       THEN /\ Caught(r, ExtraFileInputBug)
            /\ UNCHANGED <<files, manifest, provenance>>
     ELSE IF Truthy(match.runtimeMatch) \/ Truthy(match.creationMatch)
       THEN StoreAndFinish(r, CheckedContract, match, verified,
                           Response(200, EntryStatus(match), ""))
     ELSE NoStoreAndFinish(r, Response(200, EntryStatus(match), ""))
  /\ UNCHANGED <<active, now, call, received, aux>>

Next ==
  \/ \E r \in Requests, kind \in Kinds, address \in Addresses, creatorTxHash \in BOOLEAN :
       Start(r, kind, address, creatorTxHash)
  \/ \E r \in Requests : CallVerifyDeployed(r)
  \/ \E r \in Requests, outcome \in CreatorTxOutcomes : CreatorTxReturns(r, outcome)
  \/ \E r \in Requests :
       \E match \in MatcherResults(req[r].chainId, req[r].address) : MatcherReturns(r, match)
  \/ \E r \in Requests : MatcherThrows(r)
  \/ \E r \in Requests : LegacyContinue(r)
  \/ \E r \in Requests : SessionContinue(r)

Spec == Init /\ [][Next]_vars

-----------------------------------------------------------------------------
(* The session of one client: files are added over several requests
   (saveFiles, then checkContractsInSession), and a verification request
   names the contracts to verify (verifyContractsInSessionEndpoint). *)

MaxBatch == 2    \* files in one upload request

MAX_SESSION_SIZE == 50 * 1024 * 1024

\* File contents.  A metadata file declares its sources by path and keccak256;
\* m3 also carries one source inline whose content does not hash to the
\* declared keccak256.
keccak256(content) == <<"keccak256", content>>

MetadataFiles == {"m1", "m2", "m3"}

MetadataSources(metadata) ==
  IF metadata = "m1"
    THEN (<<"A.sol">> :> keccak256("a")) @@ (<<"B.sol">> :> keccak256("b"))
    ELSE (<<"A.sol">> :> keccak256("a"))

MetadataInvalid(metadata) ==
  IF metadata = "m3" THEN (<<"Bad.sol">> :> keccak256("c")) ELSE <<>>

\* The session keeps a file's content as a base64 string.
Base64Encode(buffer) == <<"base64", buffer>>
Base64Decode(content) == content[2]

\* content.length of a stored file: the big file is four characters short of
\* MAX_SESSION_SIZE, every other file is one character long.
Length(content) ==
  IF Base64Decode(content) = "big" THEN MAX_SESSION_SIZE - 4 ELSE 1

PathContent(path, buffer) == [path |-> path, content |-> Base64Encode(buffer)]

\* The files a client uploads; one content comes under two paths.
Uploads ==
  { PathContent(<<"metadata1.json">>, "m1"), PathContent(<<"metadata2.json">>, "m2"),
    PathContent(<<"metadata3.json">>, "m3"),
    PathContent(<<"A.sol">>, "a"), PathContent(<<"copy", "A.sol">>, "a"),
    PathContent(<<"B.sol">>, "b"), PathContent(<<"big.bin">>, "big") }

RECURSIVE SeqsUpTo(_, _)
SeqsUpTo(S, n) ==
  IF n = 0 THEN {<<>>}
  ELSE SeqsUpTo(S, n - 1)
       \cup {Append(q, x) : q \in {q2 \in SeqsUpTo(S, n - 1) : Len(q2) = n - 1}, x \in S}

Batches == SeqsUpTo(Uploads, MaxBatch) \ {<<>>}

\* generateId: the sha1 of the JSON of its argument.
generateId(obj) == <<"sha1", obj>>

\* The sum of content.length over the files kept in the session.
RECURSIVE SessionSize(_)
SessionSize(inputFiles) ==
  IF DOMAIN inputFiles = {} THEN 0
  ELSE LET id == CHOOSE i \in DOMAIN inputFiles : TRUE IN
       Length(inputFiles[id].content)
         + SessionSize([i \in DOMAIN inputFiles \ {id} |-> inputFiles[i]])

RECURSIVE BatchSize(_)
BatchSize(pathContents) ==
  IF pathContents = <<>> THEN 0
  ELSE Length(Head(pathContents).content) + BatchSize(Tail(pathContents))

RECURSIVE addNewFiles_overwrites(_, _, _)
addNewFiles_overwrites(inputFiles, pathContents, newFilesCount) ==
  IF pathContents = <<>>
    THEN [inputFiles |-> inputFiles, newFilesCount |-> newFilesCount]
  ELSE LET pc == Head(pathContents)
           newId == generateId(pc.content)
       IN addNewFiles_overwrites(
            [id \in DOMAIN inputFiles \cup {newId} |->
               IF id = newId THEN pc ELSE inputFiles[id]],
            Tail(pathContents),
            IF newId \in DOMAIN inputFiles THEN newFilesCount ELSE newFilesCount + 1)

\* The forEach of saveFiles: each incoming file is kept under the id of its
\* content unless that id is taken; the files added are counted.
RECURSIVE addNewFiles(_, _, _)
addNewFiles(inputFiles, pathContents, newFilesCount) ==
  IF pathContents = <<>>
    THEN [inputFiles |-> inputFiles, newFilesCount |-> newFilesCount]
  ELSE LET pc == Head(pathContents)
           newId == generateId(pc.content)
       IN IF newId \in DOMAIN inputFiles
            THEN addNewFiles(inputFiles, Tail(pathContents), newFilesCount)
            ELSE addNewFiles(inputFiles @@ (newId :> pc), Tail(pathContents),
                             newFilesCount + 1)

\* For each content of a request, the path of the first file that has it.
FirstPaths(pathContents) ==
  [id \in {generateId(pathContents[i].content) : i \in 1..Len(pathContents)} |->
     pathContents[CHOOSE i \in 1..Len(pathContents) :
                    /\ generateId(pathContents[i].content) = id
                    /\ \A j \in 1..(i - 1) :
                         generateId(pathContents[j].content) # id].path]

saveFiles_off_by_one(pathContents, inputFiles) ==
  IF SessionSize(inputFiles) + BatchSize(pathContents) >= MAX_SESSION_SIZE
    THEN [inputFiles |-> inputFiles, outcome |-> "PayloadTooLargeError",
          newFilesCount |-> 0]
    ELSE [outcome |-> "saved"] @@ addNewFiles(inputFiles, pathContents, 0)

\* saveFiles(pathContents, session): the session's files after the call, how
\* the call ended, and the number it returns.
saveFiles_adds_before_throwing(pathContents, inputFiles) ==
  IF SessionSize(inputFiles) + BatchSize(pathContents) > MAX_SESSION_SIZE
    THEN [inputFiles |-> addNewFiles(inputFiles, <<Head(pathContents)>>, 0).inputFiles,
          outcome |-> "PayloadTooLargeError", newFilesCount |-> 0]
    ELSE [outcome |-> "saved"] @@ addNewFiles(inputFiles, pathContents, 0)

saveFiles(pathContents, inputFiles) ==
  IF SessionSize(inputFiles) + BatchSize(pathContents) > MAX_SESSION_SIZE
    THEN [inputFiles |-> inputFiles, outcome |-> "PayloadTooLargeError",
          newFilesCount |-> 0]
    ELSE [outcome |-> "saved"] @@ addNewFiles(inputFiles, pathContents, 0)

\* The buffers checkContractsInSession hands to checkFiles.
PathBuffers(inputFiles) ==
  {[path |-> inputFiles[id].path, buffer |-> Base64Decode(inputFiles[id].content)] :
     id \in DOMAIN inputFiles}

\* lib-sourcify checkFiles: one CheckedContract per metadata file; a declared
\* source is found when some file's content has its keccak256, else missing.
FoundPaths(metadata, pathBuffers) ==
  {sp \in DOMAIN MetadataSources(metadata) :
     \E pb \in pathBuffers : keccak256(pb.buffer) = MetadataSources(metadata)[sp]}

CheckedContractOf(metadata, pathBuffers) ==
  [metadataRaw |-> metadata,
   metadata |-> metadata,
   solidity |-> [sp \in FoundPaths(metadata, pathBuffers) |->
                   (CHOOSE pb \in pathBuffers :
                      keccak256(pb.buffer) = MetadataSources(metadata)[sp]).buffer],
   missing |-> [sp \in DOMAIN MetadataSources(metadata) \ FoundPaths(metadata, pathBuffers)
                  |-> MetadataSources(metadata)[sp]],
   invalid |-> MetadataInvalid(metadata)]

checkFiles(pathBuffers) ==
  {CheckedContractOf(pb.buffer, pathBuffers) :
     pb \in {q \in pathBuffers : q.buffer \in MetadataFiles}}

\* The files checkFiles used for no contract.
Unused(pathBuffers) ==
  {pb.path : pb \in {q \in pathBuffers :
     /\ q.buffer \notin MetadataFiles
     /\ \A c \in checkFiles(pathBuffers) :
          \A sp \in DOMAIN c.solidity : c.solidity[sp] # q.buffer}}

isEmpty(obj) == DOMAIN obj = {}

\* CheckedContract.isValid(contract, ignoreMissing): no source is invalid and,
\* unless ignoreMissing is passed, none is missing.
isValid(contract, ignoreMissing) ==
  (isEmpty(contract.missing) \/ ignoreMissing) /\ isEmpty(contract.invalid)

\* A contract new to the session: {contract}, the other fields undefined.
NewWrapper(contract) ==
  [contract |-> contract, address |-> "", chainId |-> "", creatorTxHash |-> "",
   status |-> "", statusMessage |-> ""]

mergeWrapper_replaces(oldContractWrapper, newContract) == NewWrapper(newContract)

mergeWrapper_stale_missing(oldContractWrapper, newContract) ==
  [oldContractWrapper EXCEPT !.contract.solidity = newContract.solidity]

\* The update of a contract the session already holds: its sources and its
\* missing map become those of the new check.
mergeWrapper(oldContractWrapper, newContract) ==
  [oldContractWrapper EXCEPT !.contract.solidity = newContract.solidity,
                             !.contract.missing = newContract.missing]

\* checkContractsInSession: checkFiles over every file of the session, the
\* contracts merged into session.contractWrappers by the id of their metadata;
\* when checkFiles throws (no metadata file), every path is unused.
checkContractsInSession(sess) ==
  LET pathBuffers == PathBuffers(sess.inputFiles)
      contracts == checkFiles(pathBuffers)
      newIds == {generateId(c.metadataRaw) : c \in contracts}
      contractOf(id) == CHOOSE c \in contracts : generateId(c.metadataRaw) = id
  IN IF contracts = {}
       THEN [sess EXCEPT !.unusedSources = {pb.path : pb \in pathBuffers}]
       ELSE [sess EXCEPT
               !.contractWrappers =
                 [id \in DOMAIN sess.contractWrappers \cup newIds |->
                    IF id \notin newIds THEN sess.contractWrappers[id]
                    ELSE IF id \in DOMAIN sess.contractWrappers
                      THEN mergeWrapper(sess.contractWrappers[id], contractOf(id))
                    ELSE NewWrapper(contractOf(id))],
               !.unusedSources = Unused(pathBuffers)]

\* A request that adds files to the session: saveFiles, then (unless it
\* threw) checkContractsInSession.
AddFiles(pathContents) ==
  /\ run.phase # "running"
  /\ \E saved \in {saveFiles(pathContents, session.inputFiles)} :
       /\ upload' = [outcome |-> saved.outcome, newFilesCount |-> saved.newFilesCount,
                     sizeBefore |-> SessionSize(session.inputFiles),
                     sizeIncoming |-> BatchSize(pathContents),
                     first |-> FirstPaths(pathContents)]
       /\ session' = IF saved.outcome = "saved"
                       THEN checkContractsInSession(
                              [session EXCEPT !.inputFiles = saved.inputFiles])
                       ELSE [session EXCEPT !.inputFiles = saved.inputFiles]
  /\ run' = NoRun
  /\ UNCHANGED <<handlerVars, files, manifest, now, call, writing, legacy, pending>>

\* isVerifiable(contractWrapper)
isVerifiable(contractWrapper) ==
  /\ isEmpty(contractWrapper.contract.missing)
  /\ isEmpty(contractWrapper.contract.invalid)
  /\ contractWrapper.address # ""
  /\ contractWrapper.chainId # ""

\* req.body.contracts of a verification request: up to MaxNamed contracts of
\* the session, each named once, with the target to verify it against (an empty
\* address stands for none given).
MaxNamed == 2

VerificationIds == {generateId(metadata) : metadata \in MetadataFiles}

ReceivedContracts ==
  {rc \in SeqsUpTo([verificationId : VerificationIds, address : {"0xab", ""},
                    chainId : {TargetChainId}, creatorTxHash : {""}], MaxNamed) :
     \A i, j \in 1..Len(rc) : i # j => rc[i].verificationId # rc[j].verificationId}

\* The first loop of verifyContractsInSessionEndpoint: the target of every
\* named contract the session holds is set.
RECURSIVE setTargets(_, _)
setTargets(contractWrappers, receivedContracts) ==
  IF receivedContracts = <<>> THEN contractWrappers
  ELSE LET rc == Head(receivedContracts)
           id == rc.verificationId
       IN setTargets(
            IF id \in DOMAIN contractWrappers
              THEN [contractWrappers EXCEPT
                      ![id].address = rc.address, ![id].chainId = rc.chainId,
                      ![id].creatorTxHash = rc.creatorTxHash]
              ELSE contractWrappers,
            Tail(receivedContracts))

\* ... and the named contracts that are verifiable, in the order received.
verifiableIds(contractWrappers, receivedContracts) ==
  SelectSeq([i \in 1..Len(receivedContracts) |-> receivedContracts[i].verificationId],
            LAMBDA id : id \in DOMAIN contractWrappers
                        /\ isVerifiable(contractWrappers[id]))

\* verifyContractsInSessionEndpoint is called: without contracts in the
\* session it throws BadRequestError; else the targets are set and
\* verifyContractsInSession starts on the verifiable contracts.
VerifyBegin(receivedContracts) ==
  /\ run.phase # "running"
  /\ IF isEmpty(session.contractWrappers)
       THEN /\ run' = [NoRun EXCEPT !.phase = "rejected"]
            /\ UNCHANGED session
       ELSE \E wrappers \in {setTargets(session.contractWrappers, receivedContracts)} :
              /\ session' = [session EXCEPT !.contractWrappers = wrappers]
              /\ run' = [NoRun EXCEPT
                   !.phase = IF verifiableIds(wrappers, receivedContracts) = <<>>
                               THEN "finished" ELSE "running",
                   !.queue = verifiableIds(wrappers, receivedContracts)]
  /\ UNCHANGED <<handlerVars, files, manifest, now, call, writing, upload, legacy, pending>>

\* How verifyDeployed (with the retry after extra-file-input-bug) ends for a
\* session entry: a perfect or partial Match, or an error.
EntryOutcomes == {"perfect", "partial", "error"}

\* One turn of the loop of verifyContractsInSession, for the contract at the
\* head of the queue: the lookup in the MatchStore, checkAndFetchMissing (the
\* contract is valid: nothing to fetch), isVerifiable, verifyDeployed, the
\* entry's status, storeMatch.  storeMatch writes with fs calls that may throw
\* (storeFails); it is awaited outside the try block, so its error leaves the
\* loop with the rest of the queue unprocessed.
VerifyEntry(outcome, storeFails) ==
  /\ run.phase = "running"
  /\ storeFails
       => /\ outcome # "error"
          /\ checkByChainAndAddress(FS, session.contractWrappers[Head(run.queue)].address,
                                    session.contractWrappers[Head(run.queue)].chainId) = <<>>
          /\ isVerifiable(session.contractWrappers[Head(run.queue)])
  /\ LET id == Head(run.queue)
         contractWrapper == session.contractWrappers[id]
         found == checkByChainAndAddress(FS, contractWrapper.address,
                                         contractWrapper.chainId)
         match == Match(contractWrapper.address, contractWrapper.chainId,
                        IF outcome = "error" THEN NULL ELSE outcome, NULL, {})
         phase == IF Tail(run.queue) = <<>> THEN "finished" ELSE "running"
     IN IF found # <<>>
          THEN /\ session' = [session EXCEPT
                    !.contractWrappers[id].status =
                       IF Truthy(found[1].runtimeMatch)
                         THEN found[1].runtimeMatch ELSE "error"]
               /\ run' = [run EXCEPT !.queue = Tail(@), !.phase = phase,
                                     !.found = @ \cup {id}]
               /\ UNCHANGED <<files, manifest>>
        ELSE IF ~isVerifiable(contractWrapper)
          THEN /\ run' = [run EXCEPT !.queue = Tail(@), !.phase = phase]
               /\ UNCHANGED <<session, files, manifest>>
        ELSE /\ session' = [session EXCEPT
                  !.contractWrappers[id].status = EntryStatus(match),
                  !.contractWrappers[id].statusMessage =
                     IF outcome = "error" THEN "verifyDeployed failed" ELSE ""]
             /\ run' = [run EXCEPT !.queue = Tail(@),
                  !.phase = IF storeFails THEN "aborted" ELSE phase,
                  !.handed = Append(@, [verificationId |-> id,
                                        contract |-> contractWrapper.contract])]
             /\ \E stored \in {IF (Truthy(match.runtimeMatch) \/ Truthy(match.creationMatch))
                                    /\ ~storeFails
                                 THEN storeMatch(FS, contractWrapper.contract, match, now).fs
                                 ELSE FS} :
                  /\ files' = stored.files
                  /\ manifest' = stored.manifest
  /\ UNCHANGED <<handlerVars, now, call, writing, upload, legacy, pending>>

\* The session's files come one per request: the metadata files and the
\* sources they declare.
SessionUploads ==
  {pc \in Uploads : Len(pc.path) = 1 /\ Base64Decode(pc.content) # "big"}

NextSession ==
  \/ \E pc \in SessionUploads : AddFiles(<<pc>>)
  \/ \E receivedContracts \in ReceivedContracts : VerifyBegin(receivedContracts)
  \/ \E outcome \in EntryOutcomes, storeFails \in BOOLEAN :
       VerifyEntry(outcome, storeFails)

SpecSession == Init /\ [][NextSession]_vars

\* Uploads alone: any batch of files, requests one after the other.
NextUpload == \E pathContents \in Batches : AddFiles(pathContents)

SpecUpload == Init /\ [][NextUpload]_vars

-----------------------------------------------------------------------------
(* POST /verify from the files of the request to the contract it hands to
   verifyDeployed (legacyVerifyEndpoint after the lookup in the MatchStore
   found nothing): extractFiles, checkFiles, the validity filter, the choice
   of one contract. *)

MaxFiles == 4    \* files in one POST /verify request
MaxChosen == 2   \* the largest chosenContract a request carries

\* req.body.chosenContract: absent, a number (JSON body) or the decimal string
\* of a number (form field); <<"string", i>> stands for the string of i.
ChosenContracts ==
  {Undefined} \cup {<<"number", i>> : i \in 0..MaxChosen}
              \cup {<<"string", i>> : i \in 0..MaxChosen}

\* JavaScript truthiness: undefined and the number 0 are falsy, every other
\* number and every non-empty string (the string "0" too) is truthy.
JsTruthy(value) ==
  IF value = Undefined THEN FALSE
  ELSE IF value[1] = "number" THEN value[2] # 0
  ELSE TRUE

\* array[value]: the element at that index (a string of digits is the same
\* property key as the number), as <<element>>; past the end undefined, as <<>>.
ElementAt(array, value) ==
  IF value[2] + 1 \in 1..Len(array) THEN <<array[value[2] + 1]>> ELSE <<>>

\* What extractFiles returns for a request with a files field: the files as
\* {path, buffer} in the order of the request.
LegacyInputs ==
  {[i \in 1..Len(q) |-> [path |-> q[i].path, buffer |-> Base64Decode(q[i].content)]] :
     q \in {q2 \in SeqsUpTo(SessionUploads, MaxFiles) :
              \A i, j \in 1..Len(q2) : i # j => q2[i] # q2[j]}}

\* lib-sourcify checkFiles as an array: one CheckedContract per metadata file,
\* in the order of the files.
checkFilesInOrder(inputFiles) ==
  LET metadataFiles == SelectSeq(inputFiles, LAMBDA pb : pb.buffer \in MetadataFiles)
      pathBuffers == {inputFiles[i] : i \in 1..Len(inputFiles)}
  IN [i \in 1..Len(metadataFiles) |->
        CheckedContractOf(metadataFiles[i].buffer, pathBuffers)]

\* The choice of the contract to verify.
chooseContract(checkedContracts, chosenContract) ==
  IF JsTruthy(chosenContract)
    THEN ElementAt(checkedContracts, chosenContract)
    ELSE <<checkedContracts[1]>>

\* legacyVerifyEndpoint from extractFiles to the call of verifyDeployed.
\* Without a files field extractFiles returns undefined.
LegacySelect(hasFiles, inputFiles, chosenContract) ==
  /\ legacy.outcome = "none"
  /\ legacy' =
       IF ~hasFiles
         THEN [NoLegacy EXCEPT !.outcome = "NotFoundError",
                               !.chosenContract = chosenContract]
       ELSE LET checkedContracts == checkFilesInOrder(inputFiles) IN
         IF checkedContracts = <<>>
           THEN [NoLegacy EXCEPT !.outcome = "BadRequestError",
                                 !.chosenContract = chosenContract]
         ELSE IF \E i \in 1..Len(checkedContracts) : ~isValid(checkedContracts[i], TRUE)
           THEN [NoLegacy EXCEPT !.outcome = "BadRequestError",
                                 !.chosenContract = chosenContract,
                                 !.checkedContracts = checkedContracts]
         ELSE IF Len(checkedContracts) # 1 /\ ~JsTruthy(chosenContract)
           THEN [NoLegacy EXCEPT !.outcome = "contractsToChoose",
                                 !.chosenContract = chosenContract,
                                 !.checkedContracts = checkedContracts]
         ELSE [outcome |-> "verifyDeployed", chosenContract |-> chosenContract,
               checkedContracts |-> checkedContracts,
               contract |-> chooseContract(checkedContracts, chosenContract)]
  /\ UNCHANGED <<handlerVars, files, manifest, now, call, writing, sessionVars, pending>>

NextLegacy ==
  \E hasFiles \in BOOLEAN, inputFiles \in LegacyInputs,
     chosenContract \in ChosenContracts :
    LegacySelect(hasFiles, inputFiles, chosenContract)

SpecLegacy == Init /\ [][NextLegacy]_vars

-----------------------------------------------------------------------------
(* The monitor's PendingContract: assemble fetches the metadata, copies its
   sources into pendingSources and starts one task per source; a task moves
   its source to fetchedSources once it has content of the declared
   keccak256.  The tasks run interleaved at their awaits. *)

\* A url of a source: the origin FileHash.fromUrl finds in it ("https": none).
Url(origin) == [origin |-> origin]

\* The origins decentralizedStorageFetchers has a fetcher for.
Fetchers == {"ipfs", "bzzr1"}

\* FileHash.fromUrl(url) is defined and its origin has a fetcher.
Fetchable(url) == url.origin # "https" /\ url.origin \in Fetchers

\* An entry of metadata.sources; content "" stands for no inline content.
Source(keccak, content, urls) ==
  [keccak256 |-> keccak, content |-> content, urls |-> urls]

\* The sources a metadata file may declare: one inline, one inline whose
\* content does not hash to its keccak256, one with two urls, one whose first
\* urls cannot be fetched from, one with neither content nor urls.
SourceZoo ==
  [sourceUnitName \in {"A.sol", "Bad.sol", "B.sol", "C.sol", "D.sol"} |->
     CASE sourceUnitName = "A.sol" -> Source(keccak256("a"), "a", <<>>)
       [] sourceUnitName = "Bad.sol" -> Source(keccak256("c"), "x", <<>>)
       [] sourceUnitName = "B.sol" ->
            Source(keccak256("b"), "", <<Url("ipfs"), Url("bzzr1")>>)
       [] sourceUnitName = "C.sol" ->
            Source(keccak256("c"), "", <<Url("https"), Url("bzzr0"), Url("ipfs")>>)
       [] OTHER -> Source(keccak256("d"), "", <<>>)]

\* metadata.sources of the metadata files the monitor may fetch.
MonitorMetadata ==
  {[sourceUnitName \in names |-> SourceZoo[sourceUnitName]] :
     names \in SUBSET DOMAIN SourceZoo}

\* What a fetcher may return for a source.
FetchedContents == {"b", "c", ""}

\* The first url at or after index i the loop can fetch from, 0 when none.
NextUrl(urls, i) ==
  IF \E j \in i..Len(urls) : Fetchable(urls[j])
    THEN CHOOSE j \in i..Len(urls) :
           Fetchable(urls[j]) /\ \A k \in i..(j - 1) : ~Fetchable(urls[k])
    ELSE 0

\* Without the key m has for k.
Without(m, k) == [x \in DOMAIN m \ {k} |-> m[x]]

\* The error movePendingToFetchedSources throws, "" when it throws none: the
\* source is not pending, it has no content, or (the assert) its content does
\* not hash to the declared keccak256.
MoveError(pendingSources, sourceUnitName) ==
  IF sourceUnitName \notin DOMAIN pendingSources THEN "not found"
  ELSE IF pendingSources[sourceUnitName].content = "" THEN "has no content"
  ELSE IF keccak256(pendingSources[sourceUnitName].content)
            # pendingSources[sourceUnitName].keccak256 THEN "Keccak mismatch"
  ELSE ""

movePendingToFetchedSources_keeps(pendingSources, fetchedSources, sourceUnitName) ==
  IF MoveError(pendingSources, sourceUnitName) # ""
    THEN [threw |-> TRUE, error |-> MoveError(pendingSources, sourceUnitName),
          pendingSources |-> pendingSources, fetchedSources |-> fetchedSources]
    ELSE [threw |-> FALSE, error |-> "",
          pendingSources |-> pendingSources,
          fetchedSources |->
            [x \in DOMAIN fetchedSources \cup {sourceUnitName} |->
               IF x = sourceUnitName THEN pendingSources[sourceUnitName]
               ELSE fetchedSources[x]]]

\* movePendingToFetchedSources: throws when the source is not pending, has no
\* content, or its content does not hash to the declared keccak256; else the
\* source is copied to fetchedSources and deleted from pendingSources.
movePendingToFetchedSources(pendingSources, fetchedSources, sourceUnitName) ==
  IF MoveError(pendingSources, sourceUnitName) # ""
    THEN [threw |-> TRUE, error |-> MoveError(pendingSources, sourceUnitName),
          pendingSources |-> pendingSources, fetchedSources |-> fetchedSources]
    ELSE [threw |-> FALSE, error |-> "",
          pendingSources |-> Without(pendingSources, sourceUnitName),
          fetchedSources |->
            [x \in DOMAIN fetchedSources \cup {sourceUnitName} |->
               IF x = sourceUnitName THEN pendingSources[sourceUnitName]
               ELSE fetchedSources[x]]]

\* Where a task stands once it has passed url i - 1 without throwing: awaiting
\* the fetch from the next url it can use, or done.
TaskFrom(urls, i) ==
  IF NextUrl(urls, i) = 0 THEN [pc |-> "done", url |-> 0, error |-> ""]
  ELSE [pc |-> "fetch", url |-> NextUrl(urls, i), error |-> ""]

\* A task that rejected, with the error thrown and the url it was at.
Rejected(url, error) == [pc |-> "rejected", url |-> url, error |-> error]

\* Promise.all(fetchPromises): rejected with the first task that rejects,
\* fulfilled when every task is done; once settled it stays settled.
Settle(phase, tasks) ==
  IF phase # "assembling" THEN phase
  ELSE IF \E n \in DOMAIN tasks : tasks[n].pc = "rejected" THEN "failed"
  ELSE IF \A n \in DOMAIN tasks : tasks[n].pc = "done" THEN "assembled"
  ELSE "assembling"

\* assemble cannot fetch the metadata (no fetcher, or the fetch throws).
MetadataFetchFails ==
  /\ pending.phase = "new"
  /\ pending' = [pending EXCEPT !.phase = "failed"]
  /\ UNCHANGED <<handlerVars, files, manifest, now, call, writing, sessionVars, legacy>>

\* The metadata arrives: pendingSources is a copy of its sources, and every
\* task runs up to its first await: a source with inline content is moved (or
\* its task throws), the others await their first fetch.
MetadataFetched(sources) ==
  /\ pending.phase = "new"
  /\ LET moved(n) == movePendingToFetchedSources(sources, <<>>, n)
         inline == {n \in DOMAIN sources : sources[n].content # ""}
         movedNames == {n \in inline : ~moved(n).threw}
         tasks == [n \in DOMAIN sources |->
                     IF n \in inline
                       THEN IF moved(n).threw THEN Rejected(0, moved(n).error)
                            ELSE [pc |-> "done", url |-> 0, error |-> ""]
                       ELSE TaskFrom(sources[n].urls, 1)]
     IN pending' = [phase |-> Settle("assembling", tasks),
                    metadata |-> <<sources>>,
                    pendingSources |-> [n \in DOMAIN sources \ movedNames |-> sources[n]],
                    fetchedSources |-> [n \in movedNames |-> sources[n]],
                    tasks |-> tasks]
  /\ UNCHANGED <<handlerVars, files, manifest, now, call, writing, sessionVars, legacy>>

\* A fetch of a task returns: the content is set on the source (it shows in
\* pendingSources while the source is there), the source is moved, and the
\* loop goes on to the next url.
FetchReturns(sourceUnitName, fetchedContent) ==
  /\ sourceUnitName \in DOMAIN pending.tasks
  /\ pending.tasks[sourceUnitName].pc = "fetch"
  /\ LET withContent ==
           IF sourceUnitName \in DOMAIN pending.pendingSources
             THEN [pending.pendingSources EXCEPT
                     ![sourceUnitName].content = fetchedContent]
             ELSE pending.pendingSources
         moved == movePendingToFetchedSources(withContent, pending.fetchedSources,
                                              sourceUnitName)
         tasks == [pending.tasks EXCEPT ![sourceUnitName] =
                     IF moved.threw
                       THEN Rejected(pending.tasks[sourceUnitName].url, moved.error)
                     ELSE TaskFrom(pending.metadata[1][sourceUnitName].urls,
                                   pending.tasks[sourceUnitName].url + 1)]
     IN pending' = [pending EXCEPT
                      !.pendingSources = moved.pendingSources,
                      !.fetchedSources = moved.fetchedSources,
                      !.tasks = tasks,
                      !.phase = Settle(@, tasks)]
  /\ UNCHANGED <<handlerVars, files, manifest, now, call, writing, sessionVars, legacy>>

\* A fetch of a task throws: the task rejects.
FetchThrows(sourceUnitName) ==
  /\ sourceUnitName \in DOMAIN pending.tasks
  /\ pending.tasks[sourceUnitName].pc = "fetch"
  /\ LET tasks == [pending.tasks EXCEPT ![sourceUnitName] =
                     Rejected(pending.tasks[sourceUnitName].url, "fetch failed")]
     IN pending' = [pending EXCEPT !.tasks = tasks, !.phase = Settle(@, tasks)]
  /\ UNCHANGED <<handlerVars, files, manifest, now, call, writing, sessionVars, legacy>>

NextPending ==
  \/ MetadataFetchFails
  \/ \E sources \in MonitorMetadata : MetadataFetched(sources)
  \/ \E sourceUnitName \in DOMAIN SourceZoo, fetchedContent \in FetchedContents :
       FetchReturns(sourceUnitName, fetchedContent)
  \/ \E sourceUnitName \in DOMAIN SourceZoo : FetchThrows(sourceUnitName)

SpecPending == Init /\ [][NextPending]_vars

-----------------------------------------------------------------------------
(* storeMatch on a contract whose source path is any path a metadata file may
   declare: the path goes through sanitizePath before the source is written. *)

MaxSegments == 3   \* segments in a source path

\* The segments source paths are made of.
Segments == {"lib", "A.sol", "..", "."}

SourcePaths == SeqsUpTo(Segments, MaxSegments) \ {<<>>}

\* One storeMatch, on an empty repository, of a contract with one source.
StoreSourcePath(sourcePath, runtimeMatch) ==
  /\ call.op = "none"
  /\ StoreMatchCall([metadata |-> "metadata1", solidity |-> (sourcePath :> "A1")],
                    Match("0xab", StoreChainId, runtimeMatch, NULL, {}))

NextPaths ==
  \E sourcePath \in SourcePaths, runtimeMatch \in {"perfect", "partial"} :
    StoreSourcePath(sourcePath, runtimeMatch)

SpecPaths == Init /\ [][NextPaths]_vars

-----------------------------------------------------------------------------
(* Properties of the single-flight gate and of the handlers (under Spec) *)

\* C1: over any interleaving of verifyDeployed calls, at most one call per
\* (chainId, address) key is past the gate at any time, and a call made while
\* its key is present ends in that same step with the already-being-verified
\* error: it inserts nothing, waits for nothing and never reaches the matcher.
C1_SingleFlight ==
  [][ /\ \A r1, r2 \in Requests :
           (r1 # r2 /\ Holding(r1)' /\ Holding(r2)') => KeyOf(r1)' # KeyOf(r2)'
      /\ \A r \in Requests :
           ( /\ req[r].pc \in {"check", "useAllSources"}
             /\ KeyOf(r) \in active
             /\ req'[r] # req[r] )
           => /\ req'[r].pc = "done"
              /\ req'[r].response.message = AlreadyBeingVerified
              /\ active' = active ]_vars

\* A call was rejected while another call for the same key is past the gate.
C1_Witness ==
  \E r1, r2 \in Requests :
    /\ r1 # r2
    /\ Holding(r1)
    /\ KeyOf(r1) = KeyOf(r2)
    /\ req[r2].pc = "done"
    /\ req[r2].response.message = AlreadyBeingVerified

\* C2: every verifyDeployed call that inserted its key removes it when it
\* exits, however it exits; so when no call is in progress the map is empty.
C2_KeyReleasedOnExit ==
  (\A r \in Requests : ~Holding(r)) => active = {}

\* C3: of two overlapping POST /verify requests for one (chainId, address), the
\* one rejected by the gate is answered with status code 429.
C3_AlreadyVerifyingIs429 ==
  \A r \in Requests :
    ( /\ req[r].kind = "verify"
      /\ req[r].pc = "done"
      /\ req[r].response.message = AlreadyBeingVerified )
    => req[r].response.code = 429

\* A verifyDeployed call has returned a storable Match that the handler is
\* about to hand to storeMatch.
WillStore(r) ==
  req[r].pc = "verified" /\ req[r].attempt = 1 /\ Storable(req[r].match)

\* C4: between a request's verification of key k and its storeMatch, no other
\* request is verifying k or is about to store for k.
C4_StoreSerializedByGate ==
  \A r1, r2 \in Requests :
    (r1 # r2 /\ WillStore(r1) /\ KeyOf(r1) = KeyOf(r2))
    => ~Holding(r2) /\ ~WillStore(r2)

\* The retry with all input files returned a perfect or a partial Match.
RetrySucceeded(r) ==
  /\ req[r].pc = "verified"
  /\ req[r].attempt = 2
  /\ \/ req[r].tempMatch.runtimeMatch \in {"perfect", "partial"}
     \/ req[r].tempMatch.creationMatch \in {"perfect", "partial"}

\* C5: when the retry with all input files returns a perfect or partial Match,
\* the handler reports the retry's status and hands the retry's Match to
\* storeMatch.
C5_RetryIsFinalAnswer ==
  [][ \A r \in Requests :
        (RetrySucceeded(r) /\ req'[r].pc = "done")
        => /\ req'[r].response.status = getMatchStatus(req[r].tempMatch)
           /\ req'[r].stored # <<>>
           /\ req'[r].stored[Len(req'[r].stored)].match = req[r].tempMatch ]_vars

\* The retry with all input files returned the sentinel again.
RetryFailedAgain(r) ==
  /\ req[r].pc = "verified"
  /\ req[r].attempt = 2
  /\ req[r].tempMatch.runtimeMatch = EFIB
  /\ req[r].tempMatch.creationMatch \notin {"perfect", "partial"}

\* C6: when the retry with all input files returns extra-file-input-bug again,
\* the request ends with the error about the inconsistent upload (an error
\* response of POST /verify, status "error" with that message for a session
\* entry), storeMatch is not called and the repository is left as it was.
C6_RetrySentinelIsTerminal ==
  [][ \A r \in Requests :
        (RetryFailedAgain(r) /\ req'[r] # req[r])
        => /\ req'[r].pc = "done"
           /\ req'[r].response.message = ExtraFileInputBug
           /\ IF req[r].kind = "verify"
                THEN req'[r].response.code >= 400
                ELSE req'[r].response.status = "error"
           /\ req'[r].stored = req[r].stored
           /\ files' = files ]_vars

\* Both handlers have answered a retry that returned the sentinel again.
C6_Witness ==
  /\ \E r \in Requests :
       /\ req[r].kind = "verify" /\ req[r].pc = "done"
       /\ req[r].response.message = ExtraFileInputBug
  /\ \E r \in Requests :
       /\ req[r].kind = "session" /\ req[r].pc = "done"
       /\ req[r].response.message = ExtraFileInputBug

\* The sources stored in a contract directory, as (file, content) pairs.
StoredSources(dir) ==
  {<<p, files[p].content>> : p \in {q \in DOMAIN files : IsUnder(q, dir \o <<"sources">>)}}

\* C7: the sources under every full_match directory are exactly the sources of
\* the CheckedContract whose verification produced the perfect Match stored
\* there (after an extra-file recovery, those of the retried contract).
C7_FullMatchHoldsVerifiedSources ==
  \A dir \in DOMAIN provenance :
    StoredSources(dir) =
      {<<dir \o <<"sources">> \o sanitizePath(sp), provenance[dir][sp]>> :
         sp \in DOMAIN provenance[dir]}

\* A request is received: the step in which its handler starts.
Received(r) == req[r].pc \in {"idle", "done"} /\ req'[r] # req[r]

\* C11 as stated: when the MatchStore holds a record, full or partial, for the
\* target of a request, the handler answers the stored status and timestamp
\* and goes no further (no verifyDeployed, no storeMatch).
C11_ShortCircuitOnAnyRecord ==
  [][ \A r \in Requests :
        LET found == checkAllByChainAndAddress(FS, req'[r].address, req'[r].chainId) IN
        (Received(r) /\ found # <<>>)
        => /\ req'[r].pc = "done"
           /\ req'[r].response.status = found[1].runtimeMatch
           /\ req'[r].response.storageTimestamp = found[1].storageTimestamp ]_vars

\* C11 amended: when the MatchStore holds a full_match record for the target
\* of a request, the handler answers status perfect and the birthtime of the
\* stored metadata.json, and neither calls verifyDeployed nor storeMatch; a
\* partial_match record alone does not end the request.
C11_ShortCircuitOnFullMatch ==
  [][ \A r \in Requests :
        LET metadataPath ==
              generateAbsoluteFilePath("full", req'[r].chainId, req'[r].address,
                                       FALSE, <<"metadata.json">>)
        IN Received(r)
           => IF Exists(FS, metadataPath)
                THEN /\ req'[r].pc = "done"
                     /\ req'[r].response.code = 200
                     /\ req'[r].response.status = "perfect"
                     /\ req'[r].response.storageTimestamp = files[metadataPath].birthtime
                     /\ req'[r].stored = <<>>
                     /\ active' = active /\ files' = files
                ELSE req'[r].pc = "check" ]_vars

\* A request for a contract stored under full_match was answered at once.
C11_Witness ==
  \E r \in Requests :
    /\ req[r].pc = "done"
    /\ req[r].response.status = "perfect"
    /\ req[r].response.storageTimestamp # NoTimestamp
    /\ req[r].stored = <<>>
    /\ DirExists(FS, "full", req[r].chainId, req[r].address)

-----------------------------------------------------------------------------
(* Properties of the MatchStore (under SpecStore) *)

\* The last call was a storeMatch that persisted its Match.
Stored == call.op = "storeMatch" /\ call.outcome = "stored"

\* C8: after storeMatch of a perfect Match (runtime or creation), the
\* partial_match directory of the contract (left by a storeMatch of a partial
\* Match) no longer exists and the full_match directory holds the contract:
\* its metadata.json and its sources.
C8_Promotion ==
  (Stored /\ getMatchStatus(call.match) = "perfect")
  => LET chainId == call.match.chainId
         address == call.match.address
         metadataPath ==
           generateAbsoluteFilePath("full", chainId, address, FALSE, <<"metadata.json">>)
     IN /\ ~DirExists(FS, "partial", chainId, address)
        /\ Exists(FS, metadataPath)
        /\ files[metadataPath].content = <<"json", call.contract.metadata>>
        /\ \A sp \in DOMAIN call.contract.solidity :
             Exists(FS, SourceTarget("full", chainId, address, sp))

\* A perfect Match was stored over a partial_match directory of the contract.
C8_Witness ==
  /\ Stored
  /\ getMatchStatus(call.match) = "perfect"
  /\ call.hadPartial
  /\ DirExists(FS, "full", call.match.chainId, call.match.address)

\* The files a step wrote (new, or with other content) and those it removed.
Written == {p \in DOMAIN files' : p \notin DOMAIN files \/ files'[p] # files[p]}
Removed == DOMAIN files \ DOMAIN files'

\* C9: a storeMatch that persists its Match writes into exactly one partition:
\* full_match when runtimeMatch or creationMatch is perfect, partial_match
\* otherwise; and files of the partial_match directory are removed only by a
\* call that writes under full_match.
C9_OnePartitionFromStatus ==
  [][ (call' # call /\ call'.op = "storeMatch" /\ call'.outcome = "stored")
      => LET m == call'.match
             quality ==
               IF m.runtimeMatch = "perfect" \/ m.creationMatch = "perfect"
                 THEN "full" ELSE "partial"
             dir == generateRelativeContractDir(quality, m.chainId, m.address)
         IN /\ \A p \in Written : IsUnder(p, dir)
            /\ dir \o <<"metadata.json">> \in DOMAIN files'
            /\ Removed # {} => quality = "full"
            /\ \A p \in Removed :
                 IsUnder(p, generateRelativeContractDir("partial", m.chainId, m.address))
    ]_vars

\* A partial Match was stored in partial_match, and no full_match directory of
\* the contract exists.
C9_Witness ==
  /\ Stored
  /\ getMatchStatus(call.match) = "partial"
  /\ DirExists(FS, "partial", call.match.chainId, call.match.address)
  /\ ~DirExists(FS, "full", call.match.chainId, call.match.address)

\* C10: right after storeMatch(c, m) of a perfect or partial m, the lookup for
\* (m.chainId, m.address) returns one Match with m's address and m's partition.
C10_StoreLookupRoundTrip ==
  Stored
  => LET found == checkAllByChainAndAddress(FS, call.match.address, call.match.chainId)
     IN /\ Len(found) = 1
        /\ found[1].address = call.match.address
        /\ found[1].runtimeMatch = getMatchStatus(call.match)

StoreStep ==
  call'.op = "storeMatch" /\ <<call, files, manifest>>' # <<call, files, manifest>>

\* C14: storing the same (contract, match) twice leaves the same files with the
\* same contents as storing it once, and the second store writes the manifest
\* again (with the time of the second store).
C14_StoreIdempotent ==
  [][ ( /\ StoreStep
        /\ Stored /\ call'.outcome = "stored"
        /\ call'.contract = call.contract /\ call'.match = call.match )
      => /\ DOMAIN files' = DOMAIN files
         /\ \A p \in DOMAIN files : files'[p].content = files[p].content
         /\ manifest' = <<now>> ]_vars

\* The same (contract, match) was stored twice in a row, the second time later.
C14_Witness ==
  /\ Stored
  /\ call.again
  /\ manifest = <<MaxClock>>
  /\ \E p \in DOMAIN files : p[Len(p)] = "metadata.json" /\ files[p].birthtime = 0

-----------------------------------------------------------------------------
(* Properties of storeMatch write by write (under SpecSave) *)

\* C13: within one storeMatch the manifest is written only at the end: while
\* artifacts of the contract are still to be written, and after a store that
\* was interrupted part-way, manifest.json is as it was before the call.
C13_ManifestOnlyAtTheEnd ==
  writing.phase \in {"running", "interrupted"} => manifest = writing.manifest0

-----------------------------------------------------------------------------
(* Properties of the session (under SpecUpload and SpecSession) *)

\* C15: saveFiles rejects with payload-too-large exactly when the size of the
\* files already in the session plus the size of the incoming files exceeds
\* MAX_SESSION_SIZE (50 MiB is accepted, 50 MiB + 1 rejected), so the total
\* size of session.inputFiles never exceeds MAX_SESSION_SIZE.
C15_SessionSizeCap ==
  /\ upload.outcome # "none"
       => (upload.outcome = "PayloadTooLargeError"
             <=> upload.sizeBefore + upload.sizeIncoming > MAX_SESSION_SIZE)
  /\ SessionSize(session.inputFiles) <= MAX_SESSION_SIZE

\* The session holds exactly MAX_SESSION_SIZE, and the upload of one more
\* character was rejected.
C15_Witness ==
  /\ SessionSize(session.inputFiles) = MAX_SESSION_SIZE
  /\ upload.outcome = "PayloadTooLargeError"
  /\ upload.sizeBefore + upload.sizeIncoming = MAX_SESSION_SIZE + 1

\* The session holds a file whose content has the given keccak256.
Supplied(inputFiles, keccak) ==
  \E id \in DOMAIN inputFiles : keccak256(Base64Decode(inputFiles[id].content)) = keccak

\* C16: when an upload re-runs the checker, every entry the session already
\* holds stays; each of its found sources stays found with the same content,
\* each missing source that has now been supplied is found and no longer
\* missing, and its address, chainId, creatorTxHash and status are unchanged.
C16_MergeInPlace ==
  [][ session'.inputFiles # session.inputFiles
      => \A id \in DOMAIN session.contractWrappers :
           /\ id \in DOMAIN session'.contractWrappers
           /\ LET old == session.contractWrappers[id]
                  new == session'.contractWrappers[id]
              IN /\ \A sp \in DOMAIN old.contract.solidity :
                      /\ sp \in DOMAIN new.contract.solidity
                      /\ new.contract.solidity[sp] = old.contract.solidity[sp]
                 /\ \A sp \in DOMAIN old.contract.missing :
                      Supplied(session'.inputFiles, old.contract.missing[sp])
                      => /\ sp \notin DOMAIN new.contract.missing
                         /\ sp \in DOMAIN new.contract.solidity
                 /\ new.address = old.address
                 /\ new.chainId = old.chainId
                 /\ new.creatorTxHash = old.creatorTxHash
                 /\ new.status = old.status ]_vars

\* An entry that was given its target while a source was missing has been
\* completed by a later upload.
C16_Witness ==
  /\ run = NoRun
  /\ upload.newFilesCount = 1
  /\ \E id \in DOMAIN session.contractWrappers :
       /\ session.contractWrappers[id].address # ""
       /\ session.contractWrappers[id].status = ""
       /\ isValid(session.contractWrappers[id].contract, FALSE)

\* The entries the verification run handed to verifyDeployed.
HandedIds == {run.handed[i].verificationId : i \in 1..Len(run.handed)}

\* C17: a session verification run hands to verifyDeployed every entry of the
\* session that is valid, has address and chainId set (in this request or in
\* an earlier one) and is not in the MatchStore, and no other entry.
C17_VerifyReadyCoverage ==
  run.phase = "finished"
  => /\ \A id \in DOMAIN session.contractWrappers :
          LET contractWrapper == session.contractWrappers[id] IN
          ( /\ isVerifiable(contractWrapper)
            /\ checkByChainAndAddress(FS, contractWrapper.address,
                                      contractWrapper.chainId) = <<>> )
          => id \in HandedIds
     /\ \A id \in HandedIds : isVerifiable(session.contractWrappers[id])

\* C18: a CheckedContract with a source missing or a source invalid is never
\* the contract POST /verify hands to verifyDeployed.
C18_OnlyValidContractsVerified ==
  legacy.outcome = "verifyDeployed"
  => \A i \in 1..Len(legacy.contract) : isValid(legacy.contract[i], FALSE)

\* The session's side of the same statement (it holds under SpecSession): every
\* contract a session verification run handed to verifyDeployed has no source
\* missing and no source invalid.
SessionHandsOnlyValid ==
  \A i \in 1..Len(run.handed) : isValid(run.handed[i].contract, FALSE)

\* C19: when POST /verify finds more than one contract, it answers 400 with
\* the contracts to choose from exactly when no chosenContract was given, and
\* with chosenContract = i for a contract i of the list (0 for the first) it
\* hands contract i to verifyDeployed (every contract found being valid).
C19_ContractSelection ==
  ( /\ legacy.outcome \in {"contractsToChoose", "verifyDeployed"}
    /\ Len(legacy.checkedContracts) > 1
    /\ \A i \in 1..Len(legacy.checkedContracts) :
         isValid(legacy.checkedContracts[i], FALSE) )
  => /\ (legacy.outcome = "contractsToChoose") <=> (legacy.chosenContract = Undefined)
     /\ ( /\ legacy.chosenContract # Undefined
          /\ legacy.chosenContract[2] < Len(legacy.checkedContracts) )
        => ( /\ legacy.outcome = "verifyDeployed"
             /\ legacy.contract
                  = <<legacy.checkedContracts[legacy.chosenContract[2] + 1]>> )

\* C20: once the metadata is loaded, during assemble and after it, every
\* source path the metadata declares is in exactly one of pendingSources and
\* fetchedSources, and they hold no other path.
C20_PendingFetchedPartition ==
  pending.metadata # <<>>
  => /\ \A sourceUnitName \in DOMAIN pending.metadata[1] :
          (sourceUnitName \in DOMAIN pending.pendingSources)
            # (sourceUnitName \in DOMAIN pending.fetchedSources)
     /\ DOMAIN pending.pendingSources \cup DOMAIN pending.fetchedSources
          = DOMAIN pending.metadata[1]

\* A fetched source has been moved while another source is still pending.
C20_Witness ==
  /\ pending.metadata # <<>>
  /\ "B.sol" \in DOMAIN pending.fetchedSources
  /\ "C.sol" \in DOMAIN pending.pendingSources
  /\ "A.sol" \in DOMAIN pending.fetchedSources

\* The sources whose content the metadata does not carry inline: their content
\* can only come from a fetch.
ToFetch ==
  {n \in DOMAIN pending.tasks : pending.metadata[1][n].content = ""}

\* C21: every source of a PendingContract whose content was set by a fetch,
\* in pendingSources or in fetchedSources, has content that hashes to its
\* declared keccak256.
C21_SourceIntegrity ==
  /\ \A n \in ToFetch \cap DOMAIN pending.pendingSources :
       pending.pendingSources[n].content # ""
       => keccak256(pending.pendingSources[n].content)
            = pending.pendingSources[n].keccak256
  /\ \A n \in ToFetch \cap DOMAIN pending.fetchedSources :
       pending.fetchedSources[n].content # ""
       => keccak256(pending.fetchedSources[n].content)
            = pending.fetchedSources[n].keccak256

\* C22: assemble does not fail when the only thing that went wrong is that
\* fetches of sources failed: such sources stay unfetched.
C22_AssembleToleratesMissing ==
  ( /\ pending.metadata # <<>>
    /\ \A n \in DOMAIN pending.tasks :
         pending.tasks[n].pc = "rejected" => pending.tasks[n].error = "fetch failed" )
  => pending.phase # "failed"

\* C23: once a source is in fetchedSources its task is done: it fetches no
\* further url and it has not thrown.
C23_FirstSuccessStops ==
  \A n \in ToFetch \cap DOMAIN pending.fetchedSources : pending.tasks[n].pc = "done"

\* C24: a fetched body that does not hash to the declared keccak256 does not
\* end the source's task with an error while the source has a further url to
\* fetch from (the next url is tried).
C24_MismatchIsRecoverable ==
  \A n \in ToFetch :
    ( /\ pending.tasks[n].pc = "rejected"
      /\ pending.tasks[n].error = "Keccak mismatch" )
    => NextUrl(pending.metadata[1][n].urls, pending.tasks[n].url + 1) = 0

\* C25: a failure of the creator transaction discovery is not the outcome of
\* a request: no request is answered with the error of getCreatorTx (the
\* matcher is invoked without a creator transaction hash and its outcome is
\* the outcome of the call).
C25_CreatorTxBestEffort ==
  \A r \in Requests :
    req[r].pc = "done" => req[r].response.message # "getCreatorTx failed"

\* C26: a session verification run that has ended has processed every entry
\* it was given, and every entry it handed to verifyDeployed has its status
\* set.
C26_ResultsPerEntry ==
  run.phase \in {"finished", "aborted"}
  => /\ run.queue = <<>>
     /\ \A id \in HandedIds : session.contractWrappers[id].status # ""

\* C27: however the files came (in which requests, in which order), the
\* session has one entry per metadata file uploaded; its missing sources are
\* exactly the declared sources no uploaded file supplies, the others are in
\* solidity with the declared content, and it is valid once none is missing
\* (for a metadata file without invalid inline sources).
C27_StagingOrderIndependent ==
  /\ \A id \in DOMAIN session.inputFiles :
       Base64Decode(session.inputFiles[id].content) \in MetadataFiles
       => generateId(Base64Decode(session.inputFiles[id].content))
            \in DOMAIN session.contractWrappers
  /\ \A id \in DOMAIN session.contractWrappers :
       LET contract == session.contractWrappers[id].contract
           declared == MetadataSources(contract.metadataRaw)
           supplied == {sp \in DOMAIN declared : Supplied(session.inputFiles, declared[sp])}
       IN /\ DOMAIN contract.missing = DOMAIN declared \ supplied
          /\ DOMAIN contract.solidity = supplied
          /\ \A sp \in supplied : keccak256(contract.solidity[sp]) = declared[sp]
          /\ (supplied = DOMAIN declared /\ isEmpty(contract.invalid))
               => isValid(contract, FALSE)

\* A contract with two sources became valid by an upload of one file that
\* came after at least two others.
C27_Witness ==
  /\ upload.outcome = "saved" /\ upload.newFilesCount = 1 /\ upload.sizeBefore >= 2
  /\ generateId("m1") \in DOMAIN session.contractWrappers
  /\ isValid(session.contractWrappers[generateId("m1")].contract, FALSE)

\* C28: session.inputFiles is keyed by the sha1 of the content, so no content
\* is held twice; an upload leaves every stored file as it was (path
\* included), adds each content that is new under the path it first came with
\* in the request, and saveFiles returns the number of files added.
C28_SessionDedupe ==
  [][ /\ \A id \in DOMAIN session'.inputFiles :
           id = generateId(session'.inputFiles[id].content)
      /\ upload'.outcome = "saved"
         => /\ \A id \in DOMAIN session.inputFiles :
                 /\ id \in DOMAIN session'.inputFiles
                 /\ session'.inputFiles[id] = session.inputFiles[id]
            /\ DOMAIN session'.inputFiles
                 = DOMAIN session.inputFiles \cup DOMAIN upload'.first
            /\ \A id \in DOMAIN session'.inputFiles \ DOMAIN session.inputFiles :
                 session'.inputFiles[id].path = upload'.first[id]
            /\ upload'.newFilesCount
                 = Cardinality(DOMAIN session'.inputFiles)
                     - Cardinality(DOMAIN session.inputFiles) ]_vars

\* One request brought the same content under two paths, after the session
\* already held a file; one file was added, under the first of the two paths.
C28_Witness ==
  /\ upload.outcome = "saved" /\ upload.newFilesCount = 1
  /\ upload.sizeIncoming = 2 /\ upload.sizeBefore >= 1
  /\ DOMAIN upload.first = {generateId(Base64Encode("a"))}
  /\ upload.first[generateId(Base64Encode("a"))] = <<"copy", "A.sol">>
  /\ session.inputFiles[generateId(Base64Encode("a"))].path = <<"copy", "A.sol">>

\* C29: no file of the repository has a ".." segment in its path: the
\* sanitized path of a source is free of "..", the last segment included, so
\* the source is written inside sources/ of its contract.
C29_SanitizedPathsConfined ==
  \A p \in DOMAIN files : \A i \in 1..Len(p) : p[i] # ".."

\* C30: two verifyDeployed calls in flight at once are never for the same
\* contract directory of the MatchStore: same chain and addresses that are
\* the same up to letter case.
C30_KeyMatchesStoreDirectory ==
  \A r1, r2 \in Requests :
    (r1 # r2 /\ Holding(r1) /\ Holding(r2))
    => generateRelativeContractDir("full", req[r1].chainId, req[r1].address)
         # generateRelativeContractDir("full", req[r2].chainId, req[r2].address)

\* C31: no (chainId, address) has both a full_match and a partial_match
\* directory in the repository, whatever requests the endpoints have served.
C31_PartitionExclusive ==
  \A address \in Addresses :
    ~( /\ DirExists(FS, "full", TargetChainId, address)
       /\ DirExists(FS, "partial", TargetChainId, address) )

\* C32: a storeMatch call whose Match has no address, or has no perfect or
\* partial side, leaves the files and the manifest as they were; it returns
\* the Match when runtimeMatch is extra-file-input-bug and throws otherwise.
C32_StoreMatchFrame ==
  [][ ( /\ StoreStep
        /\ \/ call'.match.address = ""
           \/ /\ call'.match.runtimeMatch \notin {"perfect", "partial"}
              /\ call'.match.creationMatch \notin {"perfect", "partial"} )
      => /\ files' = files
         /\ manifest' = manifest
         /\ call'.outcome = IF call'.match.runtimeMatch = EFIB
                              THEN "returned" ELSE "threw" ]_vars

\* A Match without an address was refused on a repository that holds files,
\* at a later clock reading than the manifest's.
C32_Witness ==
  /\ call.op = "storeMatch" /\ call.outcome = "threw"
  /\ call.match.address = ""
  /\ files # <<>> /\ manifest # <<>> /\ manifest[1] < now

\* C33: once the promise returned by assemble has resolved or rejected, no
\* source fetch of the PendingContract is in flight and pendingSources and
\* fetchedSources no longer change.
C33_AssembleQuiescent ==
  [][ pending.phase \in {"assembled", "failed"}
      => /\ \A n \in DOMAIN pending.tasks : pending.tasks[n].pc # "fetch"
         /\ pending'.pendingSources = pending.pendingSources
         /\ pending'.fetchedSources = pending.fetchedSources ]_vars

\* C34: a lookup never reports a half-written contract: after a storeMatch
\* that was interrupted, a contract that checkAllByChainAndAddress or
\* checkByChainAndAddress reports has, next to its metadata.json, every source
\* file of the contract of that metadata.json, with its content.
C34_NoHalfWrittenLookup ==
  LET HoldsWholeContract(matchQuality, address) ==
        \E contract \in Contracts :
          LET metadataPath ==
                generateAbsoluteFilePath(matchQuality, StoreChainId, address, FALSE,
                                         <<"metadata.json">>)
              batch == SourceBatch(matchQuality, StoreChainId, address,
                                   contract.solidity)
          IN /\ Exists(FS, metadataPath)
             /\ files[metadataPath].content = <<"json", contract.metadata>>
             /\ \A path \in DOMAIN batch :
                  Exists(FS, path) /\ files[path].content = batch[path]
  IN writing.phase = "interrupted" =>
       \A address \in {writing.match.address} :
         /\ \A found \in {checkAllByChainAndAddress(FS, address, StoreChainId)} :
              found # <<>> =>
                HoldsWholeContract(statusToMatchQuality(found[1].runtimeMatch), address)
         /\ checkByChainAndAddress(FS, address, StoreChainId) # <<>> =>
              HoldsWholeContract("full", address)

\* C35: an upload that saveFiles rejects with payload-too-large leaves the
\* session as it was: no file of the batch is in session.inputFiles, and the
\* contracts and the unused list are those of before the request.
C35_RejectedUploadFrame ==
  [][ upload'.outcome = "PayloadTooLargeError"
      => /\ session'.inputFiles = session.inputFiles
         /\ session'.contractWrappers = session.contractWrappers
         /\ session'.unusedSources = session.unusedSources ]_vars

\* A batch of two files was rejected for its size while the session held a
\* contract; the first file of the batch was small and new to the session.
C35_Witness ==
  /\ upload.outcome = "PayloadTooLargeError"
  /\ ~isEmpty(session.contractWrappers)
  /\ Cardinality(DOMAIN upload.first) = 2
  /\ \E id \in DOMAIN upload.first :
       /\ id \notin DOMAIN session.inputFiles
       /\ Length(id[2]) = 1

\* C36: an upload of files whose contents the session already holds is
\* accepted and adds nothing: saveFiles returns 0, session.inputFiles is
\* unchanged, and the upload is not rejected as payload-too-large.
C36_ReuploadHarmless ==
  [][ ( /\ upload'.sizeIncoming > 0
        /\ DOMAIN upload'.first \subseteq DOMAIN session.inputFiles )
      => /\ upload'.outcome = "saved"
         /\ upload'.newFilesCount = 0
         /\ session'.inputFiles = session.inputFiles ]_vars

=============================================================================
